---- MODULE Spec2Model ----
(***************************************************************************)
(* Model of es2csv.py: the retry decorator, the Es2csv export object       *)
(* (create_connection, check_indexes, dump_index, prepare_file,            *)
(* write_to_file) as driven by main(), and the flattening routine          *)
(* to_keyvalue_pairs of the csv branch of write_to_file.                   *)
(***************************************************************************)
EXTENDS Integers, Sequences, FiniteSets, TLC

(***************************************************************************)
(* Program constants and model bounds                                      *)
(***************************************************************************)
TIMES_TO_TRY == 3
RETRY_DELAY == 60

\* size= of the search request (1000 in the source), scaled down
PageSize == 1
\* largest number of documents in one index of the backend
MaxDocs == 2
\* largest number of indexes get_alias returns
MaxIndexes == 2
\* longest array of scalars in a generated document
MaxListLen == 2

Min(a, b) == IF a < b THEN a ELSE b

(***************************************************************************)
(* JSON values: the _source of a hit is a nesting of dicts (key/value      *)
(* pairs in iteration order), lists and scalars.                           *)
(***************************************************************************)
JInt(n) == [t |-> "int", v |-> n]
JStr(s) == [t |-> "str", v |-> s]
JDict(kv) == [t |-> "dict", kv |-> kv]
JList(items) == [t |-> "list", items |-> items]

is_dict(arg) == arg.t = "dict"
is_list(arg) == arg.t = "list"

\* Python's str() of a scalar, as '%s' formats it
PyStr(x) == IF x.t = "int" THEN ToString(x.v) ELSE x.v

\* json.dumps with the default separators
RECURSIVE dumps(_)
RECURSIVE dumps_items(_, _)
RECURSIVE dumps_pairs(_, _)
dumps_items(items, n) ==
    IF n > Len(items) THEN ""
    ELSE (IF n > 1 THEN ", " ELSE "") \o dumps(items[n]) \o dumps_items(items, n + 1)
dumps_pairs(kv, n) ==
    IF n > Len(kv) THEN ""
    ELSE (IF n > 1 THEN ", " ELSE "") \o "\"" \o kv[n][1] \o "\": "
         \o dumps(kv[n][2]) \o dumps_pairs(kv, n + 1)
dumps(x) ==
    IF is_dict(x) THEN "{" \o dumps_pairs(x.kv, 1) \o "}"
    ELSE IF is_list(x) THEN "[" \o dumps_items(x.items, 1) \o "]"
    ELSE IF x.t = "int" THEN ToString(x.v)
    ELSE "\"" \o x.v \o "\""

NL == "\n"

(***************************************************************************)
(* The backend: index names (as character sequences), the documents of     *)
(* each index in _id order, and the paging of search and scroll.           *)
(***************************************************************************)
\* the indexes of the backend, in the order get_alias lists them
IndexOrder == << <<"k", ".", "a">>, <<"k", "_", "a">> >>

IndexNames == { IndexOrder[n] : n \in DOMAIN IndexOrder }

RECURSIVE JoinChars(_)
JoinChars(cs) == IF cs = <<>> THEN "" ELSE Head(cs) \o JoinChars(Tail(cs))

\* index.replace('.', '_')
Replace(cs) == [n \in 1..Len(cs) |-> IF cs[n] = "." THEN "_" ELSE cs[n]]

\* the n-th hit of index c
Hit(c, n) ==
    [_index |-> c, _id |-> n,
     _source |-> JDict(<< <<"idx", JStr(JoinChars(c))>>, <<"n", JInt(n)>> >>)]

\* documents pos+1 .. pos+k of index c
Hits(c, pos, k) == [n \in 1..k |-> Hit(c, pos + n)]

RECURSIVE Selected(_, _)
Selected(S, n) ==
    IF n > Len(IndexOrder) THEN <<>>
    ELSE (IF n \in S THEN <<IndexOrder[n]>> ELSE <<>>) \o Selected(S, n + 1)

\* the index lists self.index can match
AliasLists ==
    { Selected(S, 1) : S \in { T \in SUBSET DOMAIN IndexOrder : Cardinality(T) <= MaxIndexes } }

SeqRange(s) == { s[n] : n \in DOMAIN s }

(***************************************************************************)
(* State                                                                   *)
(***************************************************************************)
VARIABLES
    pc,          \* position of main()'s flow of control
    op,          \* the function the retry wrapper is running
    mtries,      \* f_retry's remaining guarded attempts
    es_local,    \* create_connection's local es
    self_es,     \* self.es (0: attribute not set)
    indexes,     \* check_indexes' local indexes
    i,           \* position of check_indexes' for loop
    sid,         \* dump_index's scroll id
    scrolled,    \* dump_index's scrolled
    scroll_size, \* dump_index's scroll_size
    filename,    \* self.filename ("" : not set)
    file_type,   \* self.file_type ("" : not set)
    files,       \* the file system: file name -> pieces written
    clock,       \* wall clock, in seconds
    aliases,     \* backend: the indexes matching self.index
    total,       \* backend: number of documents of each index
    mutating,    \* backend: documents are deleted while scrolling
    calls,       \* history: invocations of f by the current f_retry, per op
    delays,      \* history: time.sleep calls, per op
    err,         \* history: last exception raised inside f
    healthy,     \* history: clients whose cluster.health() succeeded
    written,     \* history: hits passed to write_to_file by this dump_index
    fetched,     \* history: hits returned to this dump_index
    created,     \* history: <<index, file name>> of every prepare_file open
    returned,    \* history: indexes whose dump_index returned in this attempt
    csv_headers, \* self.csv_headers
    pending,     \* csv export: the batches still to be passed to write_to_file
    rows,        \* history: the out dicts write_to_file serialized
    page,        \* dump_index's page: the last response of es.search / es.scroll
    twin         \* csv export: a second export object fed the same batches

vars == << pc, op, mtries, es_local, self_es, indexes, i, sid, scrolled,
           scroll_size, filename, file_type, files, clock, aliases, total,
           mutating, calls, delays, err, healthy, written, fetched, created,
           returned, csv_headers, pending, rows, page, twin >>

Ops == {"create_connection", "check_indexes"}

NoSid == [c |-> <<>>, pos |-> 0]

NoPage == [_scroll_id |-> NoSid, hits |-> [total |-> 0, hits |-> <<>>]]

\* an export object on which nothing was prepared yet
FreshExport ==
    [filename |-> "", file_type |-> "", csv_headers |-> <<>>,
     files |-> << >>, rows |-> <<>>]

Init ==
    /\ pc = "main"
    /\ op = "none"
    /\ mtries = 0
    /\ es_local = 0
    /\ self_es = 0
    /\ indexes = <<>>
    /\ i = 0
    /\ sid = NoSid
    /\ scrolled = 0
    /\ scroll_size = 0
    /\ filename = ""
    /\ file_type = ""
    /\ files = << >>
    /\ clock = 0
    /\ aliases \in AliasLists
    /\ total \in [IndexNames -> 0..MaxDocs]
    /\ \A c \in IndexNames : c \notin SeqRange(aliases) => total[c] = 0
    /\ mutating \in BOOLEAN
    /\ calls = [o \in Ops |-> 0]
    /\ delays = [o \in Ops |-> 0]
    /\ err = "none"
    /\ healthy = {}
    /\ written = <<>>
    /\ fetched = <<>>
    /\ created = <<>>
    /\ returned = {}
    /\ csv_headers = <<>>
    /\ pending = <<>>
    /\ rows = <<>>
    /\ page = NoPage
    /\ twin = FreshExport

(***************************************************************************)
(* Backend responses                                                       *)
(***************************************************************************)
\* sizes a page starting after document pos of index c can have
PageLens(c, pos) ==
    LET rem == total[c] - pos
    IN  IF mutating THEN 0..Min(PageSize, rem)
        ELSE IF rem = 0 THEN {0} ELSE 1..Min(PageSize, rem)

\* the response to es.search / es.scroll that carries k hits
Page(c, pos, k) ==
    [_scroll_id |-> [c |-> c, pos |-> pos + k],
     hits |-> [total |-> total[c], hits |-> Hits(c, pos, k)]]

\* datetime.now() to the second, read n-th in one run of check_indexes at
\* clock time now: the origin of the clock is arbitrary, what a later
\* reading can differ in is whether the second of the previous one is over
Readings(now, n) == IF n > 1 THEN {now, now + 1} ELSE {now}

(***************************************************************************)
(* to_keyvalue_pairs: the flattening of one _source into the dict out,     *)
(* (header, value) pairs in insertion order, and into self.csv_headers     *)
(***************************************************************************)
\* header_delimeter.join(ancestors)
RECURSIVE JoinWith(_, _)
JoinWith(sep, strs) ==
    IF strs = <<>> THEN ""
    ELSE IF Len(strs) = 1 THEN strs[1]
    ELSE strs[1] \o sep \o JoinWith(sep, Tail(strs))

HasKey(out, header) == \E n \in DOMAIN out : out[n][1] = header

KeyPos(out, header) == CHOOSE n \in DOMAIN out : out[n][1] = header

RecordOverwrite(out, header, source) ==
    IF HasKey(out, header)
    THEN [out EXCEPT ![KeyPos(out, header)] = <<header, source>>]
    ELSE Append(out, <<header, source>>)

\* the first value of a key joined to an empty one, as every later value is
RecordAlwaysJoin(out, header, source) ==
    IF HasKey(out, header)
    THEN [out EXCEPT ![KeyPos(out, header)] =
             <<header, JStr(PyStr(out[KeyPos(out, header)][2]) \o "," \o PyStr(source))>>]
    ELSE Append(out, <<header, JStr("," \o PyStr(source))>>)

\* try: out[header] = '%s%s%s' % (out[header], ',', source)
\* except: out[header] = source
Record(out, header, source) ==
    IF HasKey(out, header)
    THEN [out EXCEPT ![KeyPos(out, header)] =
             <<header, JStr(PyStr(out[KeyPos(out, header)][2]) \o "," \o PyStr(source))>>]
    ELSE Append(out, <<header, source>>)

\* if header not in self.csv_headers: self.csv_headers.append(header)
AddHeader(headers, header) ==
    IF header \in SeqRange(headers) THEN headers ELSE Append(headers, header)

RECURSIVE to_keyvalue_pairs(_, _, _)
RECURSIVE over_keys(_, _, _, _)
RECURSIVE over_items(_, _, _, _)
\* for key in source.keys(): to_keyvalue_pairs(source[key], ancestors + [key])
over_keys(kv, n, ancestors, st) ==
    IF n > Len(kv) THEN st
    ELSE over_keys(kv, n + 1, ancestors,
                   to_keyvalue_pairs(kv[n][2], Append(ancestors, kv[n][1]), st))
\* [to_keyvalue_pairs(item, ancestors) for item in source]
over_items(items, n, ancestors, st) ==
    IF n > Len(items) THEN st
    ELSE over_items(items, n + 1, ancestors,
                    to_keyvalue_pairs(items[n], ancestors, st))
to_keyvalue_pairs(source, ancestors, st) ==
    IF is_dict(source) THEN over_keys(source.kv, 1, ancestors, st)
    ELSE IF is_list(source) THEN over_items(source.items, 1, ancestors, st)
    ELSE LET header == JoinWith(",", ancestors)
         IN  [out |-> Record(st.out, header, source),
              headers |-> AddHeader(st.headers, header)]

\* out = {} once per batch: a row starts from the row of the hit before
RECURSIVE CsvBatchKeepOut(_, _)
CsvBatchKeepOut(data, acc) ==
    IF data = <<>> THEN acc
    ELSE LET src == Head(data)._source
             out == IF acc.rows = <<>> THEN <<>> ELSE acc.rows[Len(acc.rows)]
             st == to_keyvalue_pairs(src, <<>>, [out |-> out, headers |-> acc.headers])
         IN  IF Len(src.kv) > 0
             THEN CsvBatchKeepOut(Tail(data),
                           [headers |-> st.headers,
                            rows |-> Append(acc.rows, st.out),
                            pieces |-> acc.pieces \o <<dumps(JDict(st.out)), NL>>])
             ELSE CsvBatchKeepOut(Tail(data), acc)

\* the csv branch over the hits of one batch: out = {} per hit, a row is
\* written for a hit with a non-empty _source
RECURSIVE CsvBatch(_, _)
CsvBatch(data, acc) ==
    IF data = <<>> THEN acc
    ELSE LET src == Head(data)._source
             st == to_keyvalue_pairs(src, <<>>, [out |-> <<>>, headers |-> acc.headers])
         IN  IF Len(src.kv) > 0
             THEN CsvBatch(Tail(data),
                           [headers |-> st.headers,
                            rows |-> Append(acc.rows, st.out),
                            pieces |-> acc.pieces \o <<dumps(JDict(st.out)), NL>>])
             ELSE CsvBatch(Tail(data), acc)

\* get_headers(source), called by prepare_file: the field-paths of source
get_headers(source) ==
    to_keyvalue_pairs(source, <<>>, [out |-> <<>>, headers |-> <<>>]).headers

(***************************************************************************)
(* prepare_file and write_to_file                                          *)
(***************************************************************************)
FileName(index, now, type) ==
    JoinChars(Replace(index)) \o "_" \o ToString(now) \o "." \o type

OpenWNoTruncate(fs, name) ==
    (name :> (IF name \in DOMAIN fs THEN fs[name] ELSE <<>>)) @@ fs

\* open(name, 'w'): create or truncate
OpenW(fs, name) == (name :> <<>>) @@ fs

\* open(name, 'a') followed by the writes of pieces
OpenA(fs, name, pieces) ==
    (name :> ((IF name \in DOMAIN fs THEN fs[name] ELSE <<>>) \o pieces)) @@ fs

\* the pieces written by the json branch: json.dumps(hit['_source']) + '\n'
RECURSIVE JsonLines(_)
JsonLines(data) ==
    IF data = <<>> THEN <<>>
    ELSE <<dumps(Head(data)._source), NL>> \o JsonLines(Tail(data))

\* what prepare_file leaves in the new file and in self.csv_headers
Header(type, data) ==
    IF type = "csv"
    THEN [csv_headers |-> get_headers(data[1]._source),
          pieces |-> <<JoinWith(",", get_headers(data[1]._source))>>]
    ELSE [csv_headers |-> csv_headers, pieces |-> <<>>]

prepare_file_always(index, data, type, now, fs) ==
    [ret |-> 1,
     filename |-> FileName(index, now, type),
     file_type |-> type,
     csv_headers |-> csv_headers,
     files |-> OpenW(fs, FileName(index, now, type))]

\* prepare_file(index, data, type): None (0) for an empty batch, else the
\* file is created and self.filename / self.file_type are set
prepare_file(index, data, type, now, fs) ==
    IF Len(data) = 0
    THEN [ret |-> 0, filename |-> filename, file_type |-> file_type,
          csv_headers |-> csv_headers, files |-> fs]
    ELSE [ret |-> 1,
          filename |-> FileName(index, now, type),
          file_type |-> type,
          csv_headers |-> Header(type, data).csv_headers,
          files |-> OpenA(OpenW(fs, FileName(index, now, type)),
                          FileName(index, now, type), Header(type, data).pieces)]

\* write_to_file(data): the files, self.csv_headers and the rows serialized
write_to_file(fs, name, type, data) ==
    IF type = "json"
    THEN [files |-> OpenA(fs, name, JsonLines(data)),
          csv_headers |-> csv_headers, rows |-> <<>>]
    ELSE IF type = "csv"
    THEN LET b == CsvBatch(data, [headers |-> <<>>, rows |-> <<>>, pieces |-> <<>>])
         IN  [files |-> OpenA(fs, name, b.pieces),
              csv_headers |-> b.headers, rows |-> b.rows]
    ELSE [files |-> fs, csv_headers |-> csv_headers, rows |-> <<>>]

LoopCondOffByOne(n, size) == n + 1 < size

\* the loop also ends when the page added nothing to the count
LoopCondStopOnEmpty(n, size) == n < size /\ n > scrolled

LoopCondInclusive(n, size) == n <= size

\* while (scrolled < scroll_size)
LoopCond(n, size) == n < size

(***************************************************************************)
(* main() and the retry wrapper                                            *)
(***************************************************************************)
\* main: es.create_connection(); entry of f_retry: mtries = tries
CallCreateConnection ==
    /\ pc = "main"
    /\ pc' = "retry"
    /\ op' = "create_connection"
    /\ mtries' = TIMES_TO_TRY
    /\ UNCHANGED << es_local, self_es, indexes, i, sid, scrolled, scroll_size,
                    filename, file_type, files, clock, aliases, total, mutating,
                    calls, delays, err, healthy, written, fetched, created,
                    returned >>
    /\ UNCHANGED << csv_headers, pending, rows, page, twin >>

\* f_retry calls f: a guarded attempt while mtries > 0, else the final one
Invoke ==
    /\ pc = "retry"
    /\ calls' = [calls EXCEPT ![op] = @ + 1]
    /\ err' = "none"
    /\ IF op = "create_connection"
       THEN /\ es_local' = calls[op] + 1
            /\ pc' = "health"
            /\ UNCHANGED << indexes, i, returned >>
       ELSE /\ pc' = "alias"
            /\ indexes' = <<>>
            /\ i' = 0
            /\ returned' = {}
            /\ UNCHANGED es_local
    /\ UNCHANGED << op, mtries, self_es, sid, scrolled, scroll_size, filename,
                    file_type, files, clock, aliases, total, mutating, delays,
                    healthy, written, fetched, created >>
    /\ UNCHANGED << csv_headers, pending, rows, page, twin >>

HandlerTargetCatchAll(kind, m) == IF m > 0 THEN "retry" ELSE "exit"

HandlerTargetOffByOne(kind, m) ==
    IF kind = "transient"
    THEN IF m > 1 THEN "retry" ELSE "exit"
    ELSE "raised"

\* what f_retry does with an exception of class kind raised by f
HandlerTarget(kind, m) ==
    IF kind = "transient"
    THEN IF m > 0 THEN "retry" ELSE "exit"
    ELSE "raised"

(***************************************************************************)
(* create_connection                                                       *)
(***************************************************************************)
create_connection_unprobed(local, probe_ok, old) == local

\* self.es once the body has run on the client local: es.cluster.health()
\* comes before self.es = es, so a probe that raises leaves self.es alone
create_connection(local, probe_ok, old) == IF probe_ok THEN local ELSE old

\* es.cluster.health() returns; self.es = es; main calls check_indexes
HealthOK ==
    /\ pc = "health"
    /\ healthy' = healthy \cup {es_local}
    /\ self_es' = create_connection(es_local, TRUE, self_es)
    /\ pc' = "retry"
    /\ op' = "check_indexes"
    /\ mtries' = TIMES_TO_TRY
    /\ UNCHANGED << es_local, indexes, i, sid, scrolled, scroll_size, filename,
                    file_type, files, clock, aliases, total, mutating, calls,
                    delays, err, written, fetched, created, returned >>
    /\ UNCHANGED << csv_headers, pending, rows, page, twin >>

NetPoints == {"health", "alias", "search", "scroll"}

\* an exception of class kind leaves f: the except clauses of f_retry
\* (print, time.sleep(delay), mtries -= 1 / exit(1)) or propagation
Handle(kind) ==
    LET target == HandlerTarget(kind, mtries)
    IN  /\ pc' = target
        /\ err' = kind
        /\ IF target = "retry"
           THEN /\ delays' = [delays EXCEPT ![op] = @ + 1]
                /\ clock' = clock + RETRY_DELAY
                /\ mtries' = mtries - 1
           ELSE UNCHANGED << delays, clock, mtries >>
        /\ self_es' = IF pc = "health"
                      THEN create_connection(es_local, FALSE, self_es)
                      ELSE self_es
        /\ UNCHANGED << op, es_local, indexes, i, sid, scrolled, scroll_size,
                        filename, file_type, files, aliases, total, mutating,
                        calls, healthy, written, fetched, created, returned >>
        /\ page' = NoPage
        /\ UNCHANGED << csv_headers, pending, rows, twin >>

\* a request raises ExceptionToCheck inside a guarded attempt
TransientFailure ==
    /\ pc \in NetPoints
    /\ mtries > 0
    /\ Handle("transient")

\* a request raises ExceptionToCheck inside the final attempt
FatalExit ==
    /\ pc \in NetPoints
    /\ mtries = 0
    /\ Handle("transient")

\* a request raises an exception that is not ExceptionToCheck
NonTransientFailure ==
    /\ pc \in NetPoints
    /\ Handle("other")

(***************************************************************************)
(* check_indexes and dump_index                                            *)
(***************************************************************************)
\* dump_index(index) returns: the for loop of check_indexes goes on, or
\* check_indexes, f_retry and main return
Return(c) ==
    /\ returned' = returned \cup {c}
    /\ IF i < Len(indexes)
       THEN /\ i' = i + 1
            /\ pc' = "search"
       ELSE /\ i' = i
            /\ pc' = "done"

\* indexes = self.es.indices.get_alias(self.index)
AliasOK ==
    /\ pc = "alias"
    /\ indexes' = aliases
    /\ IF Len(aliases) = 0
       THEN /\ i' = 0
            /\ pc' = "done"
       ELSE /\ i' = 1
            /\ pc' = "search"
    /\ UNCHANGED << op, mtries, es_local, self_es, sid, scrolled, scroll_size,
                    filename, file_type, files, clock, aliases, total,
                    mutating, calls, delays, err, healthy, written, fetched,
                    created, returned >>
    /\ UNCHANGED << csv_headers, pending, rows, page, twin >>

\* sid = page['_scroll_id'] left out: the scroll id is never updated
NextSidStale(old, resp) == old

\* the scroll id dump_index keeps after a page
NextSid(old, resp) == resp._scroll_id

\* dump_index called prepare_file with the csv type
DefaultTypeCsv == "csv"

\* the type prepare_file takes when dump_index passes none
DefaultType == "json"

\* the first page of dump_index: es.search, prepare_file, write_to_file
Search ==
    /\ pc = "search"
    /\ LET c == indexes[i]
       IN  \E k \in PageLens(c, 0), now \in Readings(clock, i) :
             LET resp == Page(c, 0, k)
                 data == resp.hits.hits
                 pf == prepare_file(c, data, DefaultType, now, files)
             IN  /\ clock' = now
                 /\ sid' = NextSid(sid, resp)
                 /\ scrolled' = Len(data)
                 /\ scroll_size' = resp.hits.total
                 /\ fetched' = data
                 /\ filename' = pf.filename
                 /\ file_type' = pf.file_type
                 /\ IF pf.ret = 0
                    THEN /\ files' = pf.files
                         /\ csv_headers' = pf.csv_headers
                         /\ rows' = rows
                         /\ written' = <<>>
                         /\ created' = created
                         /\ page' = NoPage
                         /\ Return(c)
                    ELSE /\ LET w == write_to_file(pf.files, pf.filename,
                                                   pf.file_type, data)
                            IN  /\ files' = w.files
                                /\ csv_headers' = w.csv_headers
                                /\ rows' = rows \o w.rows
                         /\ written' = data
                         /\ created' = Append(created, <<c, pf.filename>>)
                         /\ IF LoopCond(scrolled', scroll_size')
                            THEN /\ pc' = "scroll"
                                 /\ page' = resp
                                 /\ UNCHANGED << i, returned >>
                            ELSE /\ page' = NoPage
                                 /\ Return(c)
    /\ UNCHANGED << op, mtries, es_local, self_es, indexes, aliases, total,
                    mutating, calls, delays, err, healthy, pending, twin >>

\* scrolled += len(page['hits']['hits']) counted the pages, not the hits
CountHitsPerPage(n, data) == n + 1

\* scrolled += len(page['hits']['hits'])
CountHits(n, data) == n + Len(data)

\* one iteration of the while loop: es.scroll, write_to_file
Scroll ==
    /\ pc = "scroll"
    /\ \E k \in PageLens(sid.c, sid.pos) :
         LET resp == Page(sid.c, sid.pos, k)
             data == resp.hits.hits
         IN  /\ sid' = NextSid(sid, resp)
             /\ scrolled' = CountHits(scrolled, data)
             /\ fetched' = fetched \o data
             /\ LET w == write_to_file(files, filename, file_type, data)
                IN  /\ files' = w.files
                    /\ csv_headers' = w.csv_headers
                    /\ rows' = rows \o w.rows
             /\ written' = written \o data
             /\ IF LoopCond(scrolled', scroll_size)
                THEN /\ pc' = "scroll"
                     /\ page' = resp
                     /\ UNCHANGED << i, returned >>
                ELSE /\ page' = NoPage
                     /\ Return(indexes[i])
    /\ UNCHANGED << op, mtries, es_local, self_es, indexes, scroll_size,
                    filename, file_type, clock, aliases, total, mutating,
                    calls, delays, err, healthy, created, pending, twin >>

\* open() raises IOError in prepare_file (first page, not empty) or in
\* write_to_file (a scrolled page)
OutputIOError ==
    /\ \/ pc = "search" /\ \E k \in PageLens(indexes[i], 0) : k > 0
       \/ pc = "scroll"
    /\ Handle("io")

Next ==
    \/ CallCreateConnection
    \/ Invoke
    \/ TransientFailure
    \/ FatalExit
    \/ NonTransientFailure
    \/ HealthOK
    \/ AliasOK
    \/ Search
    \/ Scroll
    \/ OutputIOError

Spec == Init /\ [][Next]_vars

TypeOK ==
    /\ pc \in {"main", "retry", "health", "alias", "search", "scroll",
               "done", "exit", "raised"}
    /\ mtries \in 0..TIMES_TO_TRY
    /\ scrolled \in 0..MaxDocs
    /\ Len(page.hits.hits) \in 0..PageSize
    /\ twin = FreshExport

(***************************************************************************)
(* Reading a file back: the lines terminated by a newline, and what        *)
(* follows the last newline                                                *)
(***************************************************************************)
RECURSIVE SplitLines(_, _, _)
SplitLines(pieces, cur, acc) ==
    IF pieces = <<>> THEN [lines |-> acc, rest |-> cur]
    ELSE IF Head(pieces) = NL
         THEN SplitLines(Tail(pieces), "", Append(acc, cur))
         ELSE SplitLines(Tail(pieces), cur \o Head(pieces), acc)

Lines(content) == SplitLines(content, "", <<>>).lines
Unterminated(content) == SplitLines(content, "", <<>>).rest

\* the serialized sources of a sequence of hits
SourcesOf(hs) == [n \in 1..Len(hs) |-> dumps(hs[n]._source)]

\* all documents of index c, in _id order
AllHits(c) == Hits(c, 0, total[c])

\* number of prepare_file opens for index c
Creations(c) == Cardinality({ n \in DOMAIN created : created[n][1] = c })

(***************************************************************************)
(* C1: with no concurrent mutation, at the step where dump_index returns   *)
(* for an index with T documents, the batch sizes sum to T (scrolled and   *)
(* the number of hits fetched) and the hits passed to write_to_file are    *)
(* exactly the T documents of the index, each once.                        *)
(***************************************************************************)
C1_BatchesExhaustive ==
    [][ (~mutating /\ returned' # returned /\ returned \subseteq returned') =>
          /\ scrolled' = total[indexes[i]]
          /\ Len(fetched') = total[indexes[i]]
          /\ written' = AllHits(indexes[i]) ]_vars

C1_Witness ==
    /\ ~mutating
    /\ pc = "done"
    /\ Len(indexes) = 2
    /\ Len(written) = MaxDocs
    /\ scrolled = MaxDocs
    /\ delays["check_indexes"] = 1

(***************************************************************************)
(* C3: an operation that raises ExceptionToCheck on every invocation is    *)
(* invoked exactly tries + 1 times with tries delays, then the process     *)
(* exits; it is never invoked more often, and while all invocations so far *)
(* failed the wrapper has slept once per invocation.                       *)
(***************************************************************************)
C3_RetryBudget ==
    /\ \A o \in Ops : calls[o] <= TIMES_TO_TRY + 1 /\ delays[o] <= TIMES_TO_TRY
    /\ pc = "exit" => /\ calls[op] = TIMES_TO_TRY + 1
                      /\ delays[op] = TIMES_TO_TRY
                      /\ clock >= TIMES_TO_TRY * RETRY_DELAY
    /\ pc = "retry" => /\ calls[op] = delays[op]
                       /\ mtries = TIMES_TO_TRY - delays[op]
    /\ pc = "done" => delays["check_indexes"] < calls["check_indexes"]

C3_Witness ==
    /\ pc = "exit"
    /\ op = "check_indexes"
    /\ calls[op] = TIMES_TO_TRY + 1
    /\ files # << >>

(***************************************************************************)
(* C5: an exception that is not ExceptionToCheck leaves the wrapper at     *)
(* once, on a guarded or on the final attempt: no further invocation, no   *)
(* delay, no exit(1); nothing runs afterwards.                             *)
(***************************************************************************)
NonTransient == {"other", "io"}

C5_NonTransientPropagates ==
    [][ /\ (err' \in NonTransient /\ err \notin NonTransient) =>
              /\ pc' = "raised"
              /\ calls' = calls
              /\ delays' = delays
              /\ mtries' = mtries
              /\ clock' = clock
        /\ pc = "raised" => (pc' = "raised" /\ calls' = calls) ]_vars

C5_Witness ==
    /\ pc = "raised"
    /\ err = "io"
    /\ mtries = 0
    /\ delays[op] = TIMES_TO_TRY

(***************************************************************************)
(* C6: self.es is only ever a client whose health probe succeeded; every   *)
(* request of check_indexes is issued on such a client; if every           *)
(* connection attempt fails the process exits with self.es never set.      *)
(***************************************************************************)
C6_ValidatedHandle ==
    /\ self_es # 0 => self_es \in healthy
    /\ pc \in {"alias", "search", "scroll"} => self_es \in healthy
    /\ (pc = "exit" /\ op = "create_connection") =>
          (self_es = 0 /\ calls[op] = TIMES_TO_TRY + 1)

C6_Witness ==
    /\ pc = "scroll"
    /\ self_es = TIMES_TO_TRY + 1
    /\ healthy = {TIMES_TO_TRY + 1}

(***************************************************************************)
(* C7: when the first batch of an index is empty, dump_index creates no    *)
(* file, writes nothing, issues no scroll request and returns.             *)
(***************************************************************************)
C7_EmptyFirstBatch ==
    [][ (Search /\ fetched' = <<>>) =>
          /\ files' = files
          /\ created' = created
          /\ filename' = filename
          /\ file_type' = file_type
          /\ written' = <<>>
          /\ pc' # "scroll"
          /\ indexes[i] \in returned' ]_vars

C7_Witness ==
    /\ pc = "done"
    /\ Len(indexes) = 2
    /\ total[indexes[1]] > 0
    /\ total[indexes[2]] = 0
    /\ fetched = <<>>
    /\ DOMAIN files = {filename}

C9_CreatedOnce == \A c \in IndexNames : Creations(c) <= 1

(***************************************************************************)
(* C4: when no wrapped operation fails more than TIMES_TO_TRY times the    *)
(* process does not exit(1), and when main returns (no concurrent          *)
(* mutation) every non-empty index has an output file created for it that  *)
(* holds all of its documents.                                             *)
(***************************************************************************)
\* file name f, created for index c, holds every document of c
HoldsAll(f, c) ==
    /\ f \in DOMAIN files
    /\ \A n \in 1..total[c] :
         dumps(Hit(c, n)._source) \in SeqRange(Lines(files[f]))

C4_NoDataLoss ==
    /\ pc = "exit" => delays[op] = TIMES_TO_TRY
    /\ (pc = "done" /\ ~mutating) =>
         \A c \in SeqRange(aliases) :
            total[c] > 0 =>
               \E n \in DOMAIN created :
                  created[n][1] = c /\ HoldsAll(created[n][2], c)

(***************************************************************************)
(* Runs in which no request and no open() fails.  The flow of control is   *)
(* sequential and blocking, so a step of the program that stays possible   *)
(* is eventually taken.                                                    *)
(***************************************************************************)
NextNoFailure ==
    \/ CallCreateConnection
    \/ Invoke
    \/ HealthOK
    \/ AliasOK
    \/ Search
    \/ Scroll

NoFailureSpec == Init /\ [][NextNoFailure]_vars /\ WF_vars(NextNoFailure)

(***************************************************************************)
(* C2: with no concurrent mutation, a scroll loop that no failure          *)
(* interrupts terminates (dump_index returns for the index), and no page   *)
(* is requested for an index whose dump_index has returned.                *)
(***************************************************************************)
C2_ScrollTerminates ==
    /\ \A c \in IndexNames :
          (~mutating /\ pc = "scroll" /\ indexes[i] = c)
              ~> (c \in returned)
    /\ [](pc \in {"search", "scroll"} => indexes[i] \notin returned)

C2_Witness ==
    /\ ~mutating
    /\ pc = "done"
    /\ err = "none"
    /\ Len(indexes) = 2
    /\ returned = SeqRange(indexes)
    /\ scrolled = MaxDocs
    /\ Cardinality(DOMAIN files) = 2

(***************************************************************************)
(* The csv export: prepare_file(index, data, 'csv') followed by            *)
(* write_to_file for each batch, over generated documents                  *)
(***************************************************************************)
Scalars == {JInt(1), JInt(2), JInt(3), JStr("x")}

ListItems == {JInt(2), JInt(3), JStr("x")}

ScalarLists ==
    { JList(s) : s \in UNION { [1..n -> ListItems] : n \in 0..MaxListLen } }

Leafish == Scalars \cup ScalarLists

SubKeys == {"b", "c"}

SubDicts1 == { JDict(<< <<k, v>> >>) : k \in SubKeys, v \in Leafish }

SubDicts2 == { JDict(<< <<"b", v>>, <<"c", w>> >>) : v, w \in Leafish }

DictLists ==
    { JList(<< JDict(<< <<k1, v1>> >>), JDict(<< <<k2, v2>> >>) >>) :
        k1 \in SubKeys, k2 \in SubKeys, v1 \in Scalars, v2 \in Scalars }

TopKeys == {"a", "a,b"}

DocUniverse ==
    {JDict(<<>>)}
    \cup { JDict(<< <<k, v>> >>) :
             k \in TopKeys, v \in Leafish \cup SubDicts1 \cup SubDicts2 \cup DictLists }
    \cup { JDict(<< <<"a,b", v>>, <<"a", w>> >>) :
             v \in Leafish, w \in Leafish \cup SubDicts1 }
    \cup { JDict(<< <<"a", w>>, <<"a,b", v>> >>) :
             v \in Leafish, w \in Leafish \cup SubDicts1 }

CsvIndex == IndexOrder[1]

\* the documents of the exports of two hits
PairDocs ==
    { JDict(<<>>),
      JDict(<< <<"a", JInt(1)>> >>),
      JDict(<< <<"a", JDict(<< <<"b", JInt(2)>> >>)>> >>),
      JDict(<< <<"c", JList(<<JInt(2), JStr("x")>>)>> >>) }

CsvHit(n, d) == [_index |-> CsvIndex, _id |-> n, _source |-> d]

\* the batches of an export: one hit, two hits in one batch, two batches
Exports ==
    { << <<CsvHit(1, d)>> >> : d \in DocUniverse }
    \cup { << <<CsvHit(1, d), CsvHit(2, e)>> >> : d, e \in PairDocs }
    \cup { << <<CsvHit(1, d)>>, <<CsvHit(2, e)>> >> : d, e \in PairDocs }

ExportTypes == {"json", "csv"}

\* an export object that exported before: it holds the name, type and
\* headers of that export, and the files of that export exist
UsedExport ==
    [filename |-> FileName(CsvIndex, 0, "json"), file_type |-> "json",
     csv_headers |-> <<"z">>,
     files |-> [f \in {FileName(CsvIndex, 0, t) : t \in ExportTypes} |->
                   <<"{\"z\": 0}", NL>>],
     rows |-> <<>>]

CsvInit ==
    /\ pc = "csv_prepare"
    /\ op = "none"
    /\ mtries = 0
    /\ es_local = 0
    /\ self_es = 0
    /\ indexes = <<>>
    /\ i = 0
    /\ sid = NoSid
    /\ scrolled = 0
    /\ scroll_size = 0
    /\ filename = ""
    /\ file_type = ""
    /\ files = << >>
    /\ clock = 0
    /\ aliases = <<>>
    /\ total = [c \in IndexNames |-> 0]
    /\ mutating = FALSE
    /\ calls = [o \in Ops |-> 0]
    /\ delays = [o \in Ops |-> 0]
    /\ err = "none"
    /\ healthy = {}
    /\ written = <<>>
    /\ fetched = <<>>
    /\ created = <<>>
    /\ returned = {}
    /\ csv_headers = <<>>
    /\ pending \in Exports
    /\ rows = <<>>
    /\ page = NoPage
    /\ twin \in {FreshExport, UsedExport}

\* prepare_file(index, data, type) on the export object e
Prepared(e, data, type, now) ==
    LET pf == prepare_file(CsvIndex, data, type, now, e.files)
    IN  IF pf.ret = 0 THEN e
        ELSE [filename |-> pf.filename, file_type |-> pf.file_type,
              csv_headers |-> IF type = "csv" THEN pf.csv_headers
                              ELSE e.csv_headers,
              files |-> pf.files, rows |-> e.rows]

\* write_to_file(data) on the export object e
Wrote(e, data) ==
    LET w == write_to_file(e.files, e.filename, e.file_type, data)
    IN  [filename |-> e.filename, file_type |-> e.file_type,
         csv_headers |-> IF e.file_type = "csv" THEN w.csv_headers
                         ELSE e.csv_headers,
         files |-> w.files, rows |-> e.rows \o w.rows]

\* prepare_file(index, data, type) on the first batch
CsvPrepare ==
    /\ pc = "csv_prepare"
    /\ \E type \in ExportTypes :
         LET pf == prepare_file(CsvIndex, Head(pending), type, clock, files)
         IN  /\ filename' = pf.filename
             /\ file_type' = pf.file_type
             /\ csv_headers' = pf.csv_headers
             /\ files' = pf.files
             /\ twin' = Prepared(twin, Head(pending), type, clock)
             /\ IF pf.ret = 0
                THEN /\ pc' = "csv_done"
                     /\ created' = created
                ELSE /\ pc' = "csv_write"
                     /\ created' = Append(created, <<CsvIndex, pf.filename>>)
    /\ UNCHANGED << op, mtries, es_local, self_es, indexes, i, sid, scrolled,
                    scroll_size, clock, aliases, total, mutating, calls,
                    delays, err, healthy, written, fetched, returned,
                    pending, rows, page >>

\* write_to_file(data) on the next batch
CsvWrite ==
    /\ pc = "csv_write"
    /\ pending # <<>>
    /\ LET w == write_to_file(files, filename, file_type, Head(pending))
       IN  /\ files' = w.files
           /\ csv_headers' = w.csv_headers
           /\ rows' = rows \o w.rows
    /\ twin' = Wrote(twin, Head(pending))
    /\ written' = written \o Head(pending)
    /\ pending' = Tail(pending)
    /\ pc' = IF Tail(pending) = <<>> THEN "csv_done" ELSE "csv_write"
    /\ UNCHANGED << op, mtries, es_local, self_es, indexes, i, sid, scrolled,
                    scroll_size, filename, file_type, clock, aliases, total,
                    mutating, calls, delays, err, healthy, fetched, created,
                    returned, page >>

CsvNext == CsvPrepare \/ CsvWrite

CsvSpec == CsvInit /\ [][CsvNext]_vars

(***************************************************************************)
(* Field-paths: the scalars of a document with the key sequence leading    *)
(* to each, in traversal order                                             *)
(***************************************************************************)
RECURSIVE Leaves(_, _)
RECURSIVE LeavesOfPairs(_, _, _)
RECURSIVE LeavesOfItems(_, _, _)
LeavesOfPairs(kv, n, path) ==
    IF n > Len(kv) THEN <<>>
    ELSE Leaves(kv[n][2], Append(path, kv[n][1])) \o LeavesOfPairs(kv, n + 1, path)
LeavesOfItems(items, n, path) ==
    IF n > Len(items) THEN <<>>
    ELSE Leaves(items[n], path) \o LeavesOfItems(items, n + 1, path)
Leaves(x, path) ==
    IF x.t = "dict" THEN LeavesOfPairs(x.kv, 1, path)
    ELSE IF x.t = "list" THEN LeavesOfItems(x.items, 1, path)
    ELSE << <<path, x>> >>

\* the scalars reached at field-path p, in traversal order
ScalarsAt(doc, p) ==
    LET AtP(l) == l[1] = p
        ls == SelectSeq(Leaves(doc, <<>>), AtP)
    IN  [n \in 1..Len(ls) |-> ls[n][2]]

PathsOf(doc) == { l[1] : l \in SeqRange(Leaves(doc, <<>>)) }

\* v1,v2,...,vn
Joined(vs) == JStr(JoinWith(",", [n \in 1..Len(vs) |-> PyStr(vs[n])]))

\* the value row holds at key
ValueAt(row, key) == row[KeyPos(row, key)][2]

\* the documents that got a row: the hits written with a non-empty _source
RowDocs ==
    LET NonEmpty(h) == file_type = "csv" /\ Len(h._source.kv) > 0
        hs == SelectSeq(written, NonEmpty)
    IN  [n \in 1..Len(hs) |-> hs[n]._source]

\* row holds at field-path p the scalars of doc reached at p, joined
CollapsedAt(row, doc, p) ==
    /\ HasKey(row, JoinWith(",", p))
    /\ ValueAt(row, JoinWith(",", p)) =
          IF Len(ScalarsAt(doc, p)) = 1
          THEN ScalarsAt(doc, p)[1]
          ELSE Joined(ScalarsAt(doc, p))

(***************************************************************************)
(* C10: every row written holds, at each field-path of its document, the   *)
(* scalars reached at that path joined with ',' in traversal order, and    *)
(* the scalar itself when there is exactly one.                            *)
(***************************************************************************)
C10_ArrayCollapse ==
    /\ Len(rows) = Len(RowDocs)
    /\ \A n \in 1..Len(rows) :
          \A p \in PathsOf(RowDocs[n]) : CollapsedAt(rows[n], RowDocs[n], p)

\* the same for the documents none of whose keys contains the delimiter
NoDelimiterKey(doc) ==
    \A p \in PathsOf(doc) : \A n \in DOMAIN p : p[n] # "a,b"

C10_ArrayCollapseNoDelimiterKey ==
    /\ Len(rows) = Len(RowDocs)
    /\ \A n \in 1..Len(rows) :
          NoDelimiterKey(RowDocs[n]) =>
             \A p \in PathsOf(RowDocs[n]) : CollapsedAt(rows[n], RowDocs[n], p)

\* {"a": {"b": 1, "c": [2, 3]}} yields a,b -> 1 and a,c -> "2,3"
C10_Example ==
    /\ pc = "csv_done"
    /\ RowDocs = << JDict(<< <<"a", JDict(<< <<"b", JInt(1)>>,
                          <<"c", JList(<<JInt(2), JInt(3)>>)>> >>)>> >>) >>
    /\ rows = << << <<"a,b", JInt(1)>>, <<"a,c", JStr("2,3")>> >> >>

\* the keys of a row
KeysOf(row) == { row[k][1] : k \in 1..Len(row) }

\* the key to_keyvalue_pairs gives field-path p
KeyOfPath(p) == JoinWith(",", p)

(***************************************************************************)
(* C11: every row written has exactly one entry per distinct field-path    *)
(* (sequence of map keys) leading to a scalar of its document: its keys    *)
(* are the joined field-paths, one entry each, and two different           *)
(* field-paths never share an entry.                                       *)
(***************************************************************************)
C11_OneEntryPerPath ==
    /\ Len(rows) = Len(RowDocs)
    /\ \A n \in 1..Len(rows) :
          /\ Len(rows[n]) = Cardinality(PathsOf(RowDocs[n]))
          /\ KeysOf(rows[n]) = { KeyOfPath(p) : p \in PathsOf(RowDocs[n]) }
          /\ \A p, q \in PathsOf(RowDocs[n]) :
                p # q => KeyOfPath(p) # KeyOfPath(q)

\* the same for the documents none of whose keys contains the delimiter
C11_OneEntryPerPathNoDelimiterKey ==
    /\ Len(rows) = Len(RowDocs)
    /\ \A n \in 1..Len(rows) :
          NoDelimiterKey(RowDocs[n]) =>
             /\ Len(rows[n]) = Cardinality(PathsOf(RowDocs[n]))
             /\ KeysOf(rows[n]) = { KeyOfPath(p) : p \in PathsOf(RowDocs[n]) }
             /\ \A p, q \in PathsOf(RowDocs[n]) :
                   p # q => KeyOfPath(p) # KeyOfPath(q)

\* [{"b": 1}, {"c": 2}] under "a" yields the keys a,b and a,c: no key holds
\* an array position
C11_Example ==
    /\ pc = "csv_done"
    /\ RowDocs = << JDict(<< <<"a", JList(<< JDict(<< <<"b", JInt(1)>> >>),
                                             JDict(<< <<"c", JInt(2)>> >>) >>)>> >>) >>
    /\ rows = << << <<"a,b", JInt(1)>>, <<"a,c", JInt(2)>> >> >>

\* the orders a set of keys can be listed in
Orderings(S) ==
    { h \in [1..Cardinality(S) -> S] :
        \A m, n \in 1..Cardinality(S) : m # n => h[m] # h[n] }

\* the keys of the rows written so far
AllKeys == UNION { KeysOf(rows[n]) : n \in 1..Len(rows) }

\* the csv export of all batches is over and wrote to its file
CsvExported ==
    /\ pc = "csv_done"
    /\ file_type = "csv"
    /\ filename \in DOMAIN files

(***************************************************************************)
(* C12: when a csv export is over, the header written at the head of its   *)
(* file lists every key of every row written for the collection, over all  *)
(* batches: it is the union of the rows' keys, joined with ','.             *)
(***************************************************************************)
C12_HeaderIsUnion ==
    CsvExported =>
       \E h \in Orderings(AllKeys) : files[filename][1] = JoinWith(",", h)

\* the same for the exports of a single document
C12_HeaderOfOneDocument ==
    (CsvExported /\ Len(written) = 1) =>
       \E h \in Orderings(AllKeys) : files[filename][1] = JoinWith(",", h)

\* two documents of different shape were exported under the header of the
\* first
C12_Example ==
    /\ CsvExported
    /\ Len(rows) = 2
    /\ KeysOf(rows[1]) = {"a"}
    /\ KeysOf(rows[2]) = {"c"}
    /\ files[filename][1] = "a"

(***************************************************************************)
(* C13: when a csv export is over, its file is the header on a line of its *)
(* own followed by exactly one line per document retrieved: the number of  *)
(* data lines is the number of documents.                                  *)
(***************************************************************************)
C13_HeaderThenRows ==
    CsvExported =>
       /\ Unterminated(files[filename]) = ""
       /\ Len(Lines(files[filename])) = 1 + Len(written)
       /\ Lines(files[filename])[1] = files[filename][1]
       /\ \A n \in 1..Len(rows) :
             Lines(files[filename])[1 + n] = dumps(JDict(rows[n]))

\* the export of {"a": 1}: the row shares the line of the header
C13_Example ==
    /\ CsvExported
    /\ files[filename] = <<"a", "{\"a\": 1}", NL>>
    /\ Lines(files[filename]) = <<"a{\"a\": 1}">>

\* the row a document gets when it is exported alone by a fresh object
RowAlone(d) ==
    CsvBatch(<<CsvHit(1, d)>>,
             [headers |-> <<>>, rows |-> <<>>, pieces |-> <<>>]).rows[1]

(***************************************************************************)
(* C14: two exports fed the same batches write the same rows in the same   *)
(* order and the same file content, whatever an earlier export left on     *)
(* the second object (file name, type, headers, files of the same name),   *)
(* and the row of a document is the row it gets when exported alone:       *)
(* nothing written depends on an earlier collection, batch or document.    *)
(***************************************************************************)
C14_Deterministic ==
    pc \in {"csv_write", "csv_done"} =>
       /\ twin.rows = rows
       /\ twin.filename = filename
       /\ twin.file_type = file_type
       /\ twin.filename \in DOMAIN twin.files
       /\ twin.files[twin.filename] = files[filename]
       /\ Len(rows) = Len(RowDocs)
       /\ \A n \in 1..Len(rows) : rows[n] = RowAlone(RowDocs[n])

\* two documents were exported in csv mode by an object that had exported
\* before, into a file name that existed
C14_Witness ==
    /\ pc = "csv_done"
    /\ file_type = "csv"
    /\ Len(rows) = 2
    /\ rows[1] # rows[2]
    /\ Cardinality(DOMAIN twin.files) = 2
    /\ twin.rows = rows

\* dump_index returned for an index in this invocation of check_indexes,
\* and no dump_index is running: its locals are those of the last return
Returned == pc \in {"search", "done"} /\ returned # {}

(***************************************************************************)
(* C15: only the comparison of scrolled with the scroll_size snapshot      *)
(* decides termination: scroll_size is the total of the index as reported  *)
(* when the cursor was opened, the loop is entered and continued only when *)
(* scrolled < scroll_size (an empty page does not end it), and after a     *)
(* non-empty first page dump_index returns only with                       *)
(* scrolled >= scroll_size.                                                *)
(***************************************************************************)
C15_TerminationBySnapshot ==
    /\ pc = "scroll" =>
          /\ scroll_size = total[indexes[i]]
          /\ scroll_size = page.hits.total
          /\ scrolled < scroll_size
    /\ (Returned /\ written # <<>>) =>
          /\ scroll_size = total[written[1]._index]
          /\ scrolled >= scroll_size

\* the loop goes on after an empty page received with scrolled < scroll_size
C15_Witness ==
    /\ pc = "scroll"
    /\ mutating
    /\ page.hits.hits = <<>>
    /\ scrolled = 1
    /\ scroll_size = 2

(***************************************************************************)
(* C16: a scroll request is issued only after the search of the current    *)
(* index returned a page, it carries the scroll id of the page response    *)
(* immediately before it, and none is issued when                          *)
(* scrolled >= scroll_size.                                                *)
(***************************************************************************)
C16_CursorProtocol ==
    pc = "scroll" =>
          /\ page # NoPage
          /\ page._scroll_id.c = indexes[i]
          /\ sid = page._scroll_id
          /\ sid.pos = Len(fetched)
          /\ scrolled < scroll_size

C16_Witness ==
    /\ pc = "scroll"
    /\ i = 2
    /\ sid = [c |-> indexes[2], pos |-> 1]
    /\ page._scroll_id = sid
    /\ page.hits.hits # <<>>

(***************************************************************************)
(* C17: over a step of dump_index that reaches the loop condition,         *)
(* scrolled does not decrease, it grows by exactly the size of the batch   *)
(* fetched, and it equals the number of documents passed to write_to_file  *)
(* for the index.                                                          *)
(***************************************************************************)
C17_CounterTracksWrites ==
    [][ /\ (pc = "scroll" /\ pc' \in {"scroll", "search", "done"}) =>
              /\ scrolled' >= scrolled
              /\ scrolled' - scrolled = Len(fetched') - Len(fetched)
              /\ scrolled' = Len(written')
        /\ (pc = "search" /\ pc' \in {"scroll", "search", "done"}) =>
              /\ scrolled' = Len(fetched')
              /\ (fetched' # <<>> => scrolled' = Len(written')) ]_vars

C17_Witness ==
    /\ pc = "done"
    /\ returned # {}
    /\ mutating
    /\ scrolled = 2
    /\ Len(written) = 2
    /\ written = AllHits(indexes[i])

\* the lines of file f are sources of documents of index c
OnlyDocumentsOf(f, c) ==
    \A l \in SeqRange(Lines(files[f])) :
       \E h \in SeqRange(AllHits(c)) : l = dumps(h._source)

(***************************************************************************)
(* C18: a file created by prepare_file for an index holds documents of     *)
(* that index only: no document of another index is written into it.       *)
(***************************************************************************)
C18_CollectionIsolation ==
    \A n \in DOMAIN created : OnlyDocumentsOf(created[n][2], created[n][1])

\* no file name was created for two indexes
DistinctNames ==
    \A m, n \in DOMAIN created :
       created[m][2] = created[n][2] => created[m][1] = created[n][1]

\* the same for the runs in which no two indexes got the same file name
C18_IsolationDistinctNames ==
    DistinctNames =>
       \A n \in DOMAIN created : OnlyDocumentsOf(created[n][2], created[n][1])

\* the file created for the first index holds a document of the second
C18_Example ==
    /\ pc = "done"
    /\ Len(created) = 2
    /\ created[1][1] # created[2][1]
    /\ created[1][2] = created[2][2]
    /\ Lines(files[created[1][2]]) = SourcesOf(AllHits(created[2][1]))
    /\ total[created[2][1]] > 0

\* flattening a row, each of its keys taken as one map key
Reflatten(row) ==
    to_keyvalue_pairs(JDict(row), <<>>, [out |-> <<>>, headers |-> <<>>]).out

\* no field-path of doc reaches scalars of different types
Homogeneous(doc) ==
    \A p \in PathsOf(doc) :
       \A m, n \in DOMAIN ScalarsAt(doc, p) :
          ScalarsAt(doc, p)[m].t = ScalarsAt(doc, p)[n].t

(***************************************************************************)
(* C19: flattening is idempotent: for a document in which no field-path    *)
(* reaches scalars of different types, flattening its row again, each      *)
(* joined key taken as a single map key, yields the row.                   *)
(***************************************************************************)
C19_ReflattenIdempotent ==
    /\ Len(rows) = Len(RowDocs)
    /\ \A n \in 1..Len(rows) :
          Homogeneous(RowDocs[n]) => Reflatten(rows[n]) = rows[n]

\* the same for every document
C19_ReflattenAny ==
    \A n \in 1..Len(rows) : Reflatten(rows[n]) = rows[n]

C19_Witness ==
    /\ pc = "csv_done"
    /\ Len(rows) = 1
    /\ Homogeneous(RowDocs[1])
    /\ rows[1] = << <<"a,b", JStr("2,3")>>, <<"a,c", JInt(1)>> >>
    /\ Reflatten(rows[1]) = rows[1]

====
